---- MODULE Spec2Model ----
(***************************************************************************)
(* Echo protocol of src/main.rs: one QUIC stream per message.              *)
(*                                                                         *)
(* An initiator (run_client_internal) opens one bidirectional unit per     *)
(* request, writes the encoded Message and finishes the send half.  The    *)
(* responder (Echo::accept) accepts units in a loop and spawns one handler *)
(* task per unit; a handler reads and decodes its unit and echoes the      *)
(* Message back through send_message, which opens a unit of its own.       *)
(*                                                                         *)
(* The transport (iroh / quinn) is a collaborator.  Its behaviour is       *)
(* modelled at the call sites of main.rs: units are numbered per           *)
(* initiating side, a unit becomes visible to the peer with the first      *)
(* bytes written on it, accept hands units out in the order of their       *)
(* numbers, a read completes at end-of-data or fails past the size limit,  *)
(* and once the connection has terminated every suspended call fails.      *)
(***************************************************************************)
EXTENDS Integers, Sequences, FiniteSets, TLC

\* main.rs:11
MAX_MESSAGE_SIZE == 10 * 1024 * 1024

\* main.rs:14-18
Message == {"Echo", "Ping", "Pong"}

\* main.rs:70-72, the three requests in the order they are sent
Requests == <<"Echo", "Ping", "Pong">>

\* main.rs:76, `for i in 0..3`
NResponses == 3

\* Number of request units whose bytes may come from a peer that does not
\* use send_message's encoder (a bound of the model).
MaxCrafted == 1

Units == 1 .. Len(Requests)
Sides == {"c", "s"}
Other(side) == IF side = "c" THEN "s" ELSE "c"

\* A half is one direction of a unit: "up" flows from the side that opened
\* the unit, "down" from the side that accepted it.
\* "uni" is the only direction of a unit opened with open_uni.
HalfIds == Sides \X Units \X {"up", "down", "uni"}

-----------------------------------------------------------------------------
(* Byte buffers.  A buffer of len bytes is given by its leading bytes      *)
(* (head); every byte after the head is 0.  This keeps buffers of          *)
(* MAX_MESSAGE_SIZE bytes representable.                                   *)

Buf(head, len) == [head |-> head, len |-> len]
EmptyBuf == Buf(<<>>, 0)
ByteAt(b, i) == IF i <= Len(b.head) THEN b.head[i] ELSE 0

\* bincode varint encoding of a u32 (config::standard), main.rs:28
varint_encode_u32(n) ==
    IF n < 251 THEN <<n>>
    ELSE IF n < 65536 THEN <<251, n % 256, n \div 256>>
    ELSE <<252, n % 256, (n \div 256) % 256, (n \div 65536) % 256, n \div 16777216>>

\* derive(Encode) numbers the variants in declaration order, main.rs:13-18
VariantIndex(m) ==
    CASE m = "Echo" -> 0
      [] m = "Ping" -> 1
      [] m = "Pong" -> 2

\* bincode::encode_to_vec(msg, standard()), main.rs:28-29
encode_to_vec(m) ==
    LET bytes == varint_encode_u32(VariantIndex(m))
    IN  Buf(bytes, Len(bytes))

DecOk(m, used) == [ok |-> TRUE, msg |-> m, used |-> used, err |-> "none"]
DecErr(e) == [ok |-> FALSE, msg |-> "none", used |-> 0, err |-> e]

\* bincode varint decoding of a u32: [ok, val, used, err]
varint_decode_u32(b) ==
    IF b.len < 1 THEN [ok |-> FALSE, val |-> 0, used |-> 0, err |-> "UnexpectedEnd"]
    ELSE LET t == ByteAt(b, 1) IN
         IF t < 251 THEN [ok |-> TRUE, val |-> t, used |-> 1, err |-> "none"]
         ELSE IF t = 251 THEN
              IF b.len < 3
              THEN [ok |-> FALSE, val |-> 0, used |-> 0, err |-> "UnexpectedEnd"]
              ELSE [ok |-> TRUE, val |-> ByteAt(b, 2) + 256 * ByteAt(b, 3),
                    used |-> 3, err |-> "none"]
         ELSE IF t = 252 THEN
              IF b.len < 5
              THEN [ok |-> FALSE, val |-> 0, used |-> 0, err |-> "UnexpectedEnd"]
              ELSE [ok |-> TRUE,
                    val |-> ByteAt(b, 2) + 256 * ByteAt(b, 3)
                            + 65536 * ByteAt(b, 4) + 16777216 * ByteAt(b, 5),
                    used |-> 5, err |-> "none"]
         ELSE [ok |-> FALSE, val |-> 0, used |-> 0, err |-> "InvalidIntegerType"]

\* A decoder that maps variant index 2 to Ping.
decode_from_slice_shifted(b) ==
    LET v == varint_decode_u32(b) IN
    IF ~v.ok THEN DecErr(v.err)
    ELSE CASE v.val = 0 -> DecOk("Echo", v.used)
           [] v.val = 1 -> DecOk("Ping", v.used)
           [] v.val = 2 -> DecOk("Ping", v.used)
           [] OTHER     -> DecErr("UnexpectedVariant")

\* A decoder that reports every failure as an unknown variant.
decode_from_slice_flat(b) ==
    LET v == varint_decode_u32(b) IN
    IF ~v.ok THEN DecErr("UnexpectedVariant")
    ELSE CASE v.val = 0 -> DecOk("Echo", v.used)
           [] v.val = 1 -> DecOk("Ping", v.used)
           [] v.val = 2 -> DecOk("Pong", v.used)
           [] OTHER     -> DecErr("UnexpectedVariant")

\* bincode::decode_from_slice(&bytes, standard()), main.rs:41-42: the
\* variant index is read as a varint u32; the bytes after it are not looked at
\* and the count of bytes used is discarded by `let (msg, _)`.
decode_from_slice(b) ==
    LET v == varint_decode_u32(b) IN
    IF ~v.ok THEN DecErr(v.err)
    ELSE CASE v.val = 0 -> DecOk("Echo", v.used)
           [] v.val = 1 -> DecOk("Ping", v.used)
           [] v.val = 2 -> DecOk("Pong", v.used)
           [] OTHER     -> DecErr("UnexpectedVariant")

\* A read that rejects a payload of exactly `limit` bytes.
read_to_end_strict(b, limit) ==
    IF b.len >= limit THEN [ok |-> FALSE, err |-> "TooLong"]
    ELSE [ok |-> TRUE, err |-> "none"]

\* recv.read_to_end(MAX_MESSAGE_SIZE), main.rs:39: more than `limit` bytes
\* fail the read, `limit` bytes or fewer are returned.
read_to_end(b, limit) ==
    IF b.len > limit THEN [ok |-> FALSE, err |-> "TooLong"]
    ELSE [ok |-> TRUE, err |-> "none"]

\* recv_message on a half whose bytes have arrived, main.rs:38-45
recv_message(b) ==
    LET r == read_to_end(b, MAX_MESSAGE_SIZE) IN
    IF ~r.ok THEN DecErr(r.err) ELSE decode_from_slice(b)

\* recv_one_way on a receive-only half whose bytes have arrived,
\* main.rs:164-172: the same read and the same decoding as recv_message.
recv_one_way(b) ==
    LET r == read_to_end(b, MAX_MESSAGE_SIZE) IN
    IF ~r.ok THEN DecErr(r.err) ELSE decode_from_slice(b)

\* The value a handler echoes: a handler that answers Ping with Pong.
Reply_pingpong(msg) == IF msg = "Ping" THEN "Pong" ELSE msg

\* The value a handler echoes, main.rs:123 `send_message(&conn, &msg)`
Reply(msg) == msg

-----------------------------------------------------------------------------
(* Payloads a peer can put on a request unit besides encode_to_vec(m).     *)

CraftedPayloads ==
    { EmptyBuf,                               \* nothing before end-of-data
      Buf(<<3>>, 1),                          \* no such variant
      Buf(<<0, 7>>, 2),                       \* Echo followed by one more byte
      Buf(<<251>>, 1),                        \* a two-byte varint cut short
      Buf(<<251, 1, 0>>, 3),                  \* index 1 in the three-byte form
      Buf(<<1>>, MAX_MESSAGE_SIZE),           \* exactly the limit
      Buf(<<1>>, MAX_MESSAGE_SIZE + 1) }      \* one byte past the limit

Honest(k) == encode_to_vec(Requests[k])

VARIABLES
    payload,      \* payload[k]: the bytes the initiator writes on request unit k
    conn,         \* "open" | "closed": the connection both sides share
    closeCause,   \* "none" | "close" (main.rs:82) | "lost" (terminated otherwise)
    half,         \* half[h]: [st, data] of every half of every unit
    nextId,       \* nextId[side]: number of the next unit `side` opens
    nextAcc,      \* nextAcc[side]: number of the next remote unit `side` accepts
    finishCalls,  \* finishCalls[h]: how often finish() was called on half h
    cpc,          \* run_client_internal: position
    ci,           \* run_client_internal: index of the current send / loop turn
    csend,        \* run_client_internal: the send half send_message holds
    crecv,        \* run_client_internal: the receive half being read
    responses,    \* run_client_internal: what the loop printed: <<[msg, from]>>
    cresult,      \* run_client_internal: "none" | "Ok" | "Err"
    spc,          \* Echo::accept: "accept" | "done"
    sresult,      \* Echo::accept: "none" | "Ok" | "Err"
    hpc,          \* handler task k: position
    hrecv,        \* handler task k: the receive half moved into the task
    hmsg,         \* handler task k: the decoded Message
    hsend,        \* handler task k: the send half send_message holds
    herr,         \* handler task k: why it failed ("none" if it did not)
    stderr        \* handler task k: the eprintln! line it wrote

vars == <<payload, conn, closeCause, half, nextId, nextAcc, finishCalls,
          cpc, ci, csend, crecv, responses, cresult,
          spc, sresult, hpc, hrecv, hmsg, hsend, herr, stderr>>

clientVars == <<cpc, ci, csend, crecv, responses, cresult>>
acceptVars == <<spc, sresult>>
handlerVars == <<hpc, hrecv, hmsg, hsend, herr, stderr>>

NoHalf == <<"-", 0, "-">>

Init ==
    /\ payload \in { p \in [Units -> {Honest(k) : k \in Units} \cup CraftedPayloads] :
                       /\ \A k \in Units : p[k] = Honest(k) \/ p[k] \in CraftedPayloads
                       /\ Cardinality({k \in Units : p[k] # Honest(k)}) <= MaxCrafted }
    /\ conn = "open"
    /\ closeCause = "none"
    /\ half = [h \in HalfIds |-> [st |-> "none", data |-> EmptyBuf]]
    /\ nextId = [s \in Sides |-> 1]
    /\ nextAcc = [s \in Sides |-> 1]
    /\ finishCalls = [h \in HalfIds |-> 0]
    /\ cpc = "send_open"
    /\ ci = 1
    /\ csend = NoHalf
    /\ crecv = NoHalf
    /\ responses = <<>>
    /\ cresult = "none"
    /\ spc = "accept"
    /\ sresult = "none"
    /\ hpc = [k \in Units |-> "idle"]
    /\ hrecv = [k \in Units |-> NoHalf]
    /\ hmsg = [k \in Units |-> "none"]
    /\ hsend = [k \in Units |-> NoHalf]
    /\ herr = [k \in Units |-> "none"]
    /\ stderr = [k \in Units |-> "none"]

-----------------------------------------------------------------------------
(* Transport primitives as main.rs uses them.                              *)

\* conn.open_bi(): the send half of the next unit of `side`
open_bi(side) == <<side, nextId[side], "up">>

\* A unit of `side`'s peer is waiting to be accepted: some unit numbered
\* nextAcc[side] or higher carries bytes or an end-of-data mark.
Acceptable(side) ==
    \E i \in Units : /\ i >= nextAcc[side]
                     /\ half[<<Other(side), i, "up">>].st \in {"written", "fin"}

\* Dropping a send half on a live connection finishes it.
DropSend(hs, h) ==
    IF conn = "open" /\ hs[h].st \in {"none", "open", "written"}
    THEN [hs EXCEPT ![h].st = "fin"]
    ELSE hs

\* A finish() whose end-of-data mark never reaches the peer.
Finish_forget(hs, h) == hs

\* send.finish() on half h: the end-of-data mark reaches the peer only over a
\* live connection; the call itself succeeds either way (main.rs:32).
Finish(hs, h) ==
    IF conn = "open" THEN [hs EXCEPT ![h].st = "fin"] ELSE hs

\* A read that returns with whatever bytes have arrived.
Readable_partial(h) == half[h].st \in {"written", "fin"}

\* The read on half h can complete with the bytes: end-of-data arrived, or
\* more than the limit did.
Readable(h) ==
    \/ half[h].st = "fin"
    \/ half[h].st = "written" /\ half[h].data.len > MAX_MESSAGE_SIZE


\* A read suspended on half h fails once the connection has terminated
\* (read_to_end's Err at main.rs:39).
ReadAborted(h) == conn = "closed"

\* accept_bi that reports an error whenever no unit is waiting.
AcceptFails_idle(side) == conn = "closed" \/ ~Acceptable(side)

\* accept_bi returns Err: only a terminated connection makes it do so
\* (main.rs:77 and main.rs:113, 133).
AcceptFails(side) == conn = "closed"

-----------------------------------------------------------------------------
(* run_client_internal, main.rs:64-85                                      *)

ClientErr ==
    /\ cpc' = "done"
    /\ cresult' = "Err"
    /\ UNCHANGED <<ci, csend, crecv, responses>>

\* send_message, main.rs:26: conn.open_bi().await.anyerr()?
CSendOpen ==
    /\ cpc = "send_open"
    /\ \/ /\ conn = "open"
          /\ csend' = open_bi("c")
          /\ nextId' = [nextId EXCEPT !["c"] = @ + 1]
          /\ half' = [half EXCEPT ![open_bi("c")].st = "open"]
          /\ cpc' = "send_write"
          /\ UNCHANGED <<ci, crecv, responses, cresult>>
       \/ /\ conn = "closed"
          /\ ClientErr
          /\ UNCHANGED <<nextId, half>>
    /\ UNCHANGED <<payload, conn, closeCause, nextAcc, finishCalls>>
    /\ UNCHANGED <<acceptVars, handlerVars>>

\* send_message, main.rs:28-31: encode, then send.write_all(&encoded).await.anyerr()?
CSendWrite ==
    /\ cpc = "send_write"
    /\ \/ /\ conn = "open"
          /\ half' = [half EXCEPT ![csend] = [st |-> "written", data |-> payload[ci]]]
          /\ cpc' = "send_finish"
          /\ UNCHANGED <<ci, csend, crecv, responses, cresult>>
       \/ /\ conn = "closed"
          /\ ClientErr
          /\ UNCHANGED half
    /\ UNCHANGED <<payload, conn, closeCause, nextId, nextAcc, finishCalls>>
    /\ UNCHANGED <<acceptVars, handlerVars>>

\* send_message, main.rs:32-34: send.finish().anyerr()?; Ok(())
CSendFinish ==
    /\ cpc = "send_finish"
    /\ half' = Finish(half, csend)
    /\ finishCalls' = [finishCalls EXCEPT ![csend] = @ + 1]
    /\ IF ci < Len(Requests)
       THEN ci' = ci + 1 /\ cpc' = "send_open"
       ELSE ci' = 1 /\ cpc' = "accept"
    /\ UNCHANGED <<csend, crecv, responses, cresult>>
    /\ UNCHANGED <<payload, conn, closeCause, nextId, nextAcc>>
    /\ UNCHANGED <<acceptVars, handlerVars>>

\* An accept_bi that gives up with an error when no unit is waiting.
CAccept_timeout ==
    /\ cpc = "accept"
    /\ \/ /\ Acceptable("c")
          /\ crecv' = <<"s", nextAcc["c"], "up">>
          /\ nextAcc' = [nextAcc EXCEPT !["c"] = @ + 1]
          /\ cpc' = "read"
          /\ UNCHANGED <<ci, csend, responses, cresult>>
       \/ /\ AcceptFails("c") \/ ~Acceptable("c")
          /\ ClientErr
          /\ UNCHANGED nextAcc
    /\ UNCHANGED <<payload, conn, closeCause, half, nextId, finishCalls>>
    /\ UNCHANGED <<acceptVars, handlerVars>>

\* main.rs:77: conn.accept_bi().await.anyerr()?
CAccept ==
    /\ cpc = "accept"
    /\ \/ /\ Acceptable("c")
          /\ crecv' = <<"s", nextAcc["c"], "up">>
          /\ nextAcc' = [nextAcc EXCEPT !["c"] = @ + 1]
          /\ cpc' = "read"
          /\ UNCHANGED <<ci, csend, responses, cresult>>
       \/ /\ AcceptFails("c")
          /\ ClientErr
          /\ UNCHANGED nextAcc
    /\ UNCHANGED <<payload, conn, closeCause, half, nextId, finishCalls>>
    /\ UNCHANGED <<acceptVars, handlerVars>>

\* A loop that stops one response early.
CRead_short ==
    /\ cpc = "read"
    /\ \/ /\ Readable(crecv)
          /\ LET r == recv_message(half[crecv].data) IN
             IF r.ok
             THEN /\ responses' = Append(responses, [msg |-> r.msg, from |-> crecv])
                  /\ half' = DropSend(half, <<crecv[1], crecv[2], "down">>)
                  /\ IF ci < NResponses - 1
                     THEN ci' = ci + 1 /\ cpc' = "accept"
                     ELSE ci' = ci /\ cpc' = "close"
                  /\ UNCHANGED <<csend, crecv, cresult>>
             ELSE ClientErr /\ UNCHANGED half
       \/ /\ ReadAborted(crecv)
          /\ ClientErr
          /\ UNCHANGED half
    /\ UNCHANGED <<payload, conn, closeCause, nextId, nextAcc, finishCalls>>
    /\ UNCHANGED <<acceptVars, handlerVars>>

\* main.rs:78-80: recv_message(recv).await?; println!; `_send` is dropped at
\* the end of the loop body
CRead ==
    /\ cpc = "read"
    /\ \/ /\ Readable(crecv)
          /\ LET r == recv_message(half[crecv].data) IN
             IF r.ok
             THEN /\ responses' = Append(responses, [msg |-> r.msg, from |-> crecv])
                  /\ half' = DropSend(half, <<crecv[1], crecv[2], "down">>)
                  /\ IF ci < NResponses
                     THEN ci' = ci + 1 /\ cpc' = "accept"
                     ELSE ci' = ci /\ cpc' = "close"
                  /\ UNCHANGED <<csend, crecv, cresult>>
             ELSE ClientErr /\ UNCHANGED half
       \/ /\ ReadAborted(crecv)
          /\ ClientErr
          /\ UNCHANGED half
    /\ UNCHANGED <<payload, conn, closeCause, nextId, nextAcc, finishCalls>>
    /\ UNCHANGED <<acceptVars, handlerVars>>

\* main.rs:82: conn.close(0u32.into(), b"bye!")
CClose ==
    /\ cpc = "close"
    /\ conn' = "closed"
    /\ closeCause' = IF conn = "open" THEN "close" ELSE closeCause
    /\ cpc' = "shutdown"
    /\ UNCHANGED <<ci, csend, crecv, responses, cresult>>
    /\ UNCHANGED <<payload, half, nextId, nextAcc, finishCalls>>
    /\ UNCHANGED <<acceptVars, handlerVars>>

\* main.rs:83-84: endpoint.close().await; Ok(())
CReturn ==
    /\ cpc = "shutdown"
    /\ cpc' = "done"
    /\ cresult' = "Ok"
    /\ UNCHANGED <<ci, csend, crecv, responses>>
    /\ UNCHANGED <<payload, conn, closeCause, half, nextId, nextAcc, finishCalls>>
    /\ UNCHANGED <<acceptVars, handlerVars>>

-----------------------------------------------------------------------------
(* Echo::accept, main.rs:107-142                                           *)

\* A loop that runs the handler inline: it accepts the next unit only once
\* the handler of the previous one has ended.
SAccept_inline ==
    /\ spc = "accept"
    /\ \/ /\ Acceptable("s")
          /\ \A j \in Units : hpc[j] \in {"idle", "done"}
          /\ LET k == nextAcc["s"] IN
             /\ nextAcc' = [nextAcc EXCEPT !["s"] = k + 1]
             /\ hpc' = [hpc EXCEPT ![k] = "read"]
             /\ hrecv' = [hrecv EXCEPT ![k] = <<"c", k, "up">>]
             /\ half' = DropSend(half, <<"c", k, "down">>)
          /\ UNCHANGED <<spc, sresult>>
       \/ /\ AcceptFails("s")
          /\ spc' = "done"
          /\ sresult' = "Ok"
          /\ UNCHANGED <<nextAcc, hpc, hrecv, half>>
    /\ UNCHANGED <<payload, conn, closeCause, nextId, finishCalls>>
    /\ UNCHANGED <<hmsg, hsend, herr, stderr>>
    /\ UNCHANGED clientVars

\* A loop that joins its tasks: it returns only once every handler it
\* spawned has ended.
SAccept_join ==
    /\ spc = "accept"
    /\ \/ /\ Acceptable("s")
          /\ LET k == nextAcc["s"] IN
             /\ nextAcc' = [nextAcc EXCEPT !["s"] = k + 1]
             /\ hpc' = [hpc EXCEPT ![k] = "read"]
             /\ hrecv' = [hrecv EXCEPT ![k] = <<"c", k, "up">>]
             /\ half' = DropSend(half, <<"c", k, "down">>)
          /\ UNCHANGED <<spc, sresult>>
       \/ /\ AcceptFails("s")
          /\ \A j \in Units : hpc[j] \in {"idle", "done"}
          /\ spc' = "done"
          /\ sresult' = "Ok"
          /\ UNCHANGED <<nextAcc, hpc, hrecv, half>>
    /\ UNCHANGED <<payload, conn, closeCause, nextId, finishCalls>>
    /\ UNCHANGED <<hmsg, hsend, herr, stderr>>
    /\ UNCHANGED clientVars

\* main.rs:113-138: one turn of the loop.  Ok((_send, recv)) spawns the
\* task of the unit and drops `_send` at the end of the arm; Err(_) breaks,
\* and the function returns Ok(()) (main.rs:141).
SAccept ==
    /\ spc = "accept"
    /\ \/ /\ Acceptable("s")
          /\ LET k == nextAcc["s"] IN
             /\ nextAcc' = [nextAcc EXCEPT !["s"] = k + 1]
             /\ hpc' = [hpc EXCEPT ![k] = "read"]
             /\ hrecv' = [hrecv EXCEPT ![k] = <<"c", k, "up">>]
             /\ half' = DropSend(half, <<"c", k, "down">>)
          /\ UNCHANGED <<spc, sresult>>
       \/ /\ AcceptFails("s")
          /\ spc' = "done"
          /\ sresult' = "Ok"
          /\ UNCHANGED <<nextAcc, hpc, hrecv, half>>
    /\ UNCHANGED <<payload, conn, closeCause, nextId, finishCalls>>
    /\ UNCHANGED <<hmsg, hsend, herr, stderr>>
    /\ UNCHANGED clientVars

\* The task of unit k ends with a diagnostic on stderr.
HandlerEnds(k, e, line) ==
    /\ hpc' = [hpc EXCEPT ![k] = "done"]
    /\ herr' = [herr EXCEPT ![k] = e]
    /\ stderr' = [stderr EXCEPT ![k] = line]

\* A receive failure that is returned to the accept loop and ends it.
HRecvErr_break(k, e) ==
    /\ HandlerEnds(k, e, "Error receiving message")
    /\ spc' = "done"
    /\ sresult' = "Err"
    /\ UNCHANGED <<hrecv, hmsg, hsend>>
    /\ UNCHANGED <<payload, conn, closeCause, half, nextId, nextAcc, finishCalls>>
    /\ UNCHANGED clientVars

\* A receive failure answered with a default Message (a lenient policy).
HRecvErr_default(k, e) ==
    /\ hmsg' = [hmsg EXCEPT ![k] = "Echo"]
    /\ hpc' = [hpc EXCEPT ![k] = "send_open"]
    /\ herr' = [herr EXCEPT ![k] = e]
    /\ stderr' = [stderr EXCEPT ![k] = "Error receiving message"]
    /\ UNCHANGED <<hrecv, hsend>>
    /\ UNCHANGED <<payload, conn, closeCause, half, nextId, nextAcc, finishCalls>>
    /\ UNCHANGED acceptVars
    /\ UNCHANGED clientVars

\* main.rs:127-129: Err(e) => eprintln!("Error receiving message: {}", e);
\* the task ends there.
HRecvErr(k, e) ==
    /\ HandlerEnds(k, e, "Error receiving message")
    /\ UNCHANGED <<hrecv, hmsg, hsend>>
    /\ UNCHANGED <<payload, conn, closeCause, half, nextId, nextAcc, finishCalls>>
    /\ UNCHANGED acceptVars
    /\ UNCHANGED clientVars

\* A task that keeps waiting for the bytes when the connection has gone.
HRead_retry(k) ==
    /\ hpc[k] = "read"
    /\ Readable(hrecv[k])
    /\ LET r == recv_message(half[hrecv[k]].data) IN
       IF r.ok
       THEN /\ hmsg' = [hmsg EXCEPT ![k] = r.msg]
            /\ hpc' = [hpc EXCEPT ![k] = "send_open"]
            /\ UNCHANGED <<hrecv, hsend, herr, stderr>>
            /\ UNCHANGED <<payload, conn, closeCause, half, nextId, nextAcc,
                           finishCalls>>
            /\ UNCHANGED acceptVars
            /\ UNCHANGED clientVars
       ELSE HRecvErr(k, r.err)

\* main.rs:118-120: recv_message(recv).await in the task of unit k
HRead(k) ==
    /\ hpc[k] = "read"
    /\ \/ /\ Readable(hrecv[k])
          /\ LET r == recv_message(half[hrecv[k]].data) IN
             IF r.ok
             THEN /\ hmsg' = [hmsg EXCEPT ![k] = r.msg]
                  /\ hpc' = [hpc EXCEPT ![k] = "send_open"]
                  /\ UNCHANGED <<hrecv, hsend, herr, stderr>>
                  /\ UNCHANGED <<payload, conn, closeCause, half, nextId, nextAcc,
                                 finishCalls>>
                  /\ UNCHANGED acceptVars
                  /\ UNCHANGED clientVars
             ELSE HRecvErr(k, r.err)
       \/ /\ ReadAborted(hrecv[k])
          /\ HRecvErr(k, "ConnectionLost")

\* A responder that answers on the send half of the unit the request came on.
reply_half_same(k) == <<hrecv[k][1], hrecv[k][2], "down">>

\* The send half the task of unit k answers on: send_message opens a unit,
\* main.rs:122-123 and main.rs:26.
reply_half(k) == open_bi("s")

\* main.rs:123-125: `if let Err(e) = send_message(..)` prints and the task ends
HSendErr(k) ==
    /\ HandlerEnds(k, "SendFailed", "Error sending response")
    /\ UNCHANGED <<hrecv, hmsg, hsend>>
    /\ UNCHANGED <<half, nextId>>

\* Handler tasks that run one after the other.
HSendOpen_serial(k) ==
    /\ hpc[k] = "send_open"
    /\ \A j \in Units : j < k => hpc[j] = "done"
    /\ conn = "open"
    /\ hsend' = [hsend EXCEPT ![k] = reply_half(k)]
    /\ nextId' = [nextId EXCEPT !["s"] = @ + 1]
    /\ half' = [half EXCEPT ![reply_half(k)].st = "open"]
    /\ hpc' = [hpc EXCEPT ![k] = "send_write"]
    /\ UNCHANGED <<hrecv, hmsg, herr, stderr>>
    /\ UNCHANGED <<payload, conn, closeCause, nextAcc, finishCalls>>
    /\ UNCHANGED acceptVars
    /\ UNCHANGED clientVars

\* send_message in the task of unit k, main.rs:26: conn.open_bi()
HSendOpen(k) ==
    /\ hpc[k] = "send_open"
    /\ \/ /\ conn = "open"
          /\ hsend' = [hsend EXCEPT ![k] = reply_half(k)]
          /\ nextId' = [nextId EXCEPT !["s"] = @ + 1]
          /\ half' = [half EXCEPT ![reply_half(k)].st = "open"]
          /\ hpc' = [hpc EXCEPT ![k] = "send_write"]
          /\ UNCHANGED <<hrecv, hmsg, herr, stderr>>
       \/ /\ conn = "closed"
          /\ HSendErr(k)
    /\ UNCHANGED <<payload, conn, closeCause, nextAcc, finishCalls>>
    /\ UNCHANGED acceptVars
    /\ UNCHANGED clientVars

\* send_message in the task of unit k, main.rs:28-31: encode and write_all;
\* on Err the function returns before finish() is reached
HSendWrite(k) ==
    /\ hpc[k] = "send_write"
    /\ \/ /\ conn = "open"
          /\ half' = [half EXCEPT ![hsend[k]] =
                        [st |-> "written", data |-> encode_to_vec(Reply(hmsg[k]))]]
          /\ hpc' = [hpc EXCEPT ![k] = "send_finish"]
          /\ UNCHANGED <<hrecv, hmsg, hsend, herr, stderr, nextId>>
       \/ /\ conn = "closed"
          /\ HSendErr(k)
    /\ UNCHANGED <<payload, conn, closeCause, nextAcc, finishCalls>>
    /\ UNCHANGED acceptVars
    /\ UNCHANGED clientVars

\* A task that sends its reply again after it has finished one.
HSendFinish_again(k) ==
    /\ hpc[k] = "send_finish"
    /\ half' = Finish(half, hsend[k])
    /\ finishCalls' = [finishCalls EXCEPT ![hsend[k]] = @ + 1]
    /\ hpc' = [hpc EXCEPT ![k] = IF nextId["s"] <= Len(Requests)
                                  THEN "send_open" ELSE "done"]
    /\ UNCHANGED <<hrecv, hmsg, hsend, herr, stderr>>
    /\ UNCHANGED <<payload, conn, closeCause, nextId, nextAcc>>
    /\ UNCHANGED acceptVars
    /\ UNCHANGED clientVars

\* send_message in the task of unit k, main.rs:32-34: finish(); Ok(())
HSendFinish(k) ==
    /\ hpc[k] = "send_finish"
    /\ half' = Finish(half, hsend[k])
    /\ finishCalls' = [finishCalls EXCEPT ![hsend[k]] = @ + 1]
    /\ hpc' = [hpc EXCEPT ![k] = "done"]
    /\ UNCHANGED <<hrecv, hmsg, hsend, herr, stderr>>
    /\ UNCHANGED <<payload, conn, closeCause, nextId, nextAcc>>
    /\ UNCHANGED acceptVars
    /\ UNCHANGED clientVars

-----------------------------------------------------------------------------
(* The connection terminates for a reason other than main.rs:82: the peer  *)
(* goes away, the transport times out.  accept_bi, open_bi, write_all and  *)
(* read_to_end report it as Err at main.rs:26, 31, 39, 77 and 113.  Once    *)
(* the client has its three responses it terminates the connection itself. *)
ConnLost ==
    /\ conn = "open"
    /\ cpc \notin {"close", "shutdown", "done"}
    /\ conn' = "closed"
    /\ closeCause' = "lost"
    /\ UNCHANGED <<payload, half, nextId, nextAcc, finishCalls>>
    /\ UNCHANGED <<clientVars, acceptVars, handlerVars>>

Client == CSendOpen \/ CSendWrite \/ CSendFinish \/ CAccept \/ CRead \/ CClose \/ CReturn

Handler(k) == HRead(k) \/ HSendOpen(k) \/ HSendWrite(k) \/ HSendFinish(k)

Next ==
    \/ CSendOpen
    \/ CSendWrite
    \/ CSendFinish
    \/ CAccept
    \/ CRead
    \/ CClose
    \/ CReturn
    \/ SAccept
    \/ \E k \in Units : HRead(k)
    \/ \E k \in Units : HSendOpen(k)
    \/ \E k \in Units : HSendWrite(k)
    \/ \E k \in Units : HSendFinish(k)
    \/ ConnLost

Spec == Init /\ [][Next]_vars

\* The runs used for what must eventually happen: the initiator of
\* run_client_internal, or a peer that puts an undecodable or an oversized
\* payload on exactly one of its units.
FairPayloads == { Buf(<<3>>, 1), Buf(<<1>>, MAX_MESSAGE_SIZE + 1) }

FairInit ==
    /\ Init
    /\ \A k \in Units : payload[k] = Honest(k) \/ payload[k] \in FairPayloads

\* tokio runs every spawned task and the two top-level futures whenever they
\* can make progress; the loss of the connection is not owed to anyone.
FairSpec ==
    /\ FairInit
    /\ [][Next]_vars
    /\ WF_vars(Client)
    /\ WF_vars(SAccept)
    /\ \A k \in Units : WF_vars(Handler(k))

-----------------------------------------------------------------------------
(* send_one_way, main.rs:150-161.  Nothing in main.rs calls it; the runs   *)
(* below are those of a peer that sends each of its Messages with          *)
(* send_one_way to the Echo responder and then keeps the connection open.  *)

\* conn.open_uni(): the next send-only unit of `side`
open_uni(side) ==
    <<side, 1 + Cardinality({i \in Units : half[<<side, i, "uni">>].st # "none"}), "uni">>

\* main.rs:152: conn.open_uni().await.anyerr()?
OneWayOpen ==
    /\ cpc = "uni_open"
    /\ \/ /\ conn = "open"
          /\ csend' = open_uni("c")
          /\ half' = [half EXCEPT ![open_uni("c")].st = "open"]
          /\ cpc' = "uni_write"
          /\ UNCHANGED <<ci, crecv, responses, cresult>>
       \/ /\ conn = "closed"
          /\ ClientErr
          /\ UNCHANGED half
    /\ UNCHANGED <<payload, conn, closeCause, nextId, nextAcc, finishCalls>>
    /\ UNCHANGED <<acceptVars, handlerVars>>

\* main.rs:154-157: encode, then send.write_all(&encoded).await.anyerr()?
OneWayWrite ==
    /\ cpc = "uni_write"
    /\ \/ /\ conn = "open"
          /\ half' = [half EXCEPT ![csend] = [st |-> "written", data |-> payload[ci]]]
          /\ cpc' = "uni_finish"
          /\ UNCHANGED <<ci, csend, crecv, responses, cresult>>
       \/ /\ conn = "closed"
          /\ ClientErr
          /\ UNCHANGED half
    /\ UNCHANGED <<payload, conn, closeCause, nextId, nextAcc, finishCalls>>
    /\ UNCHANGED <<acceptVars, handlerVars>>

\* main.rs:158-160: send.finish().anyerr()?; Ok(())
OneWayFinish ==
    /\ cpc = "uni_finish"
    /\ half' = Finish(half, csend)
    /\ finishCalls' = [finishCalls EXCEPT ![csend] = @ + 1]
    /\ IF ci < Len(Requests)
       THEN ci' = ci + 1 /\ cpc' = "uni_open"
       ELSE ci' = ci /\ cpc' = "uni_sent"
    /\ UNCHANGED <<csend, crecv, responses, cresult>>
    /\ UNCHANGED <<payload, conn, closeCause, nextId, nextAcc>>
    /\ UNCHANGED <<acceptVars, handlerVars>>

\* The peer sends any three Messages, each with send_one_way.
OneWayInit ==
    /\ payload \in [Units -> {encode_to_vec(m) : m \in Message}]
    /\ conn = "open"
    /\ closeCause = "none"
    /\ half = [h \in HalfIds |-> [st |-> "none", data |-> EmptyBuf]]
    /\ nextId = [s \in Sides |-> 1]
    /\ nextAcc = [s \in Sides |-> 1]
    /\ finishCalls = [h \in HalfIds |-> 0]
    /\ cpc = "uni_open"
    /\ ci = 1
    /\ csend = NoHalf
    /\ crecv = NoHalf
    /\ responses = <<>>
    /\ cresult = "none"
    /\ spc = "accept"
    /\ sresult = "none"
    /\ hpc = [k \in Units |-> "idle"]
    /\ hrecv = [k \in Units |-> NoHalf]
    /\ hmsg = [k \in Units |-> "none"]
    /\ hsend = [k \in Units |-> NoHalf]
    /\ herr = [k \in Units |-> "none"]
    /\ stderr = [k \in Units |-> "none"]

\* The responder is Echo::accept unchanged.  Its loop is the only code of
\* main.rs that accepts units, so it is the only responder step there is
\* until it has spawned a task.
OneWayNext ==
    \/ OneWayOpen
    \/ OneWayWrite
    \/ OneWayFinish
    \/ SAccept
    \/ ConnLost

OneWaySpec == OneWayInit /\ [][OneWayNext]_vars

-----------------------------------------------------------------------------
(* Vocabulary of the properties.                                           *)

\* Errors of recv_message that the payload causes (not the connection).
PayloadErrs == {"TooLong", "UnexpectedEnd", "UnexpectedVariant", "InvalidIntegerType"}

\* The payload of request unit k is one recv_message accepts.
Decodable(k) == recv_message(payload[k]).ok

\* The task of unit k has echoed: it wrote the encoding of the Message it
\* decoded on the half it opened and finished that half.
Served(k) ==
    /\ hpc[k] = "done"
    /\ herr[k] = "none"
    /\ hsend[k] # NoHalf
    /\ half[hsend[k]] = [st |-> "fin", data |-> encode_to_vec(recv_message(payload[k]).msg)]

\* The task of unit k failed in its receive step because of the payload.
RecvFailed(k) == hpc[k] = "done" /\ herr[k] \in PayloadErrs

-----------------------------------------------------------------------------
\* C1: the failure of the handler task of unit k (a read or decode error, or
\* a failed send) changes neither the accept loop nor any other task, half or
\* the connection; and every unit with a decodable payload is eventually
\* echoed unless the connection itself terminates.
C1_Isolation ==
    /\ [][\A k \in Units :
            (herr[k] = "none" /\ herr'[k] # "none") =>
               /\ spc' = spc
               /\ sresult' = sresult
               /\ conn' = conn
               /\ half' = half
               /\ \A j \in Units \ {k} :
                     /\ hpc'[j] = hpc[j]
                     /\ hmsg'[j] = hmsg[j]
                     /\ herr'[j] = herr[j]
                     /\ hsend'[j] = hsend[j]
                     /\ hrecv'[j] = hrecv[j]]_vars
    /\ \A j \in Units : Decodable(j) ~> (Served(j) \/ conn = "closed")

\* A unit failed on its payload, every other unit was echoed, the loop is
\* still accepting on the open connection.
C1_Witness ==
    \E k \in Units :
        /\ RecvFailed(k)
        /\ \A j \in Units \ {k} : Served(j)
        /\ spc = "accept"
        /\ conn = "open"

-----------------------------------------------------------------------------
\* Every request unit carries what send_message encodes (run_client_internal
\* is the initiator).
HonestRun == \A k \in Units : payload[k] = Honest(k)

\* How many of the responses read so far carry Message m.
Count(m) == Cardinality({i \in 1 .. Len(responses) : responses[i].msg = m})

\* C2: when run_client_internal is the initiator and it has read its three
\* responses, these are one Echo, one Ping and one Pong, in whatever order
\* the units were accepted, each read from a unit of its own, and each
\* handler task answered on a unit of its own.
C2_EndToEnd ==
    (HonestRun /\ Len(responses) = NResponses) =>
        /\ \A m \in Message : Count(m) = 1
        /\ \A i, j \in 1 .. Len(responses) :
              i # j => responses[i].from # responses[j].from
        /\ \A k, j \in Units : k # j => hsend[k] # hsend[j]
        /\ \A k \in Units : Served(k)

\* The client returned Ok after reading Pong, Echo, Ping in that order.
C2_Witness ==
    /\ HonestRun
    /\ cresult = "Ok"
    /\ Len(responses) = NResponses
    /\ responses[1].msg = "Pong"
    /\ responses[2].msg = "Echo"
    /\ responses[3].msg = "Ping"

-----------------------------------------------------------------------------
\* The send half paired with the receive half of request unit k.
PairedSend(k) == <<hrecv[k][1], hrecv[k][2], "down">>

\* The task of unit k has written its reply.
Replied(k) == hsend[k] # NoHalf /\ half[hsend[k]].st \in {"written", "fin"}

\* C3, as stated: the reply to the request of unit k is written on the send
\* half paired with the receive half the request was read from, and the
\* client reads it from the receive half of the unit it sent the request on.
C3_SameUnit ==
    /\ \A k \in Units : Replied(k) => hsend[k] = PairedSend(k)
    /\ \A i \in 1 .. Len(responses) : responses[i].from[1] = "c"

\* C3, amended: the reply to the request of unit k is written on the send
\* half of a unit the responder opens for it (no two tasks share one); the
\* send half paired with the request's receive half never carries a byte and
\* finish() is never called on it; the client reads every reply from the
\* receive half of a unit it accepted from the responder, and what it reads
\* there is the echo of the task that opened that unit.
C3_OwnUnit ==
    /\ \A k \in Units : hsend[k] # NoHalf =>
          /\ hsend[k][1] = "s" /\ hsend[k][3] = "up"
          /\ hsend[k] # PairedSend(k)
          /\ \A j \in Units \ {k} : hsend[j] # hsend[k]
    /\ \A k \in Units :
          /\ half[<<"c", k, "down">>].data = EmptyBuf
          /\ half[<<"c", k, "down">>].st \in {"none", "fin"}
          /\ finishCalls[<<"c", k, "down">>] = 0
    /\ \A i \in 1 .. Len(responses) :
          /\ responses[i].from = <<"s", i, "up">>
          /\ \E k \in Units : /\ hsend[k] = responses[i].from
                              /\ responses[i].msg = Reply(hmsg[k])

\* The client has read, from the first unit the responder opened, the reply
\* to the request it sent on its second unit.
C3_Witness ==
    /\ HonestRun
    /\ Len(responses) >= 1
    /\ responses[1].from = <<"s", 1, "up">>
    /\ hsend[2] = <<"s", 1, "up">>
    /\ responses[1].msg = Requests[2]

-----------------------------------------------------------------------------
\* C4: exchanges on separate units are independent.  A handler task that has
\* decoded its request can always take its next step, and one whose request
\* has arrived can always read it, whatever the other tasks are doing; every
\* response the client reads is the Message of the request whose task opened
\* the unit it is read from; and a client that returns Ok has read the
\* response of every request, in whichever order the tasks ended.
C4_Independence ==
    /\ \A k \in Units :
          /\ hpc[k] = "send_open" => ENABLED HSendOpen(k)
          /\ hpc[k] = "send_write" => ENABLED HSendWrite(k)
          /\ hpc[k] = "send_finish" => ENABLED HSendFinish(k)
          /\ (hpc[k] = "read" /\ Readable(hrecv[k])) => ENABLED HRead(k)
    /\ \A i \in 1 .. Len(responses) :
          \E k \in Units : /\ hsend[k] = responses[i].from
                           /\ responses[i].msg = recv_message(payload[k]).msg
    /\ cresult = "Ok" =>
          \A k \in Units : \E i \in 1 .. Len(responses) : responses[i].from = hsend[k]

\* Request A (Echo) was sent before request B (Ping); the task of B has
\* echoed and ended while the task of A has not yet read its request, and the
\* client has already read B's response.
C4_Witness ==
    /\ HonestRun
    /\ conn = "open"
    /\ Served(2)
    /\ hpc[1] = "read"
    /\ Len(responses) = 1
    /\ responses[1].msg = Requests[2]

\* The client returned Ok having read the responses in the order A, B.
C4_WitnessAB ==
    /\ HonestRun
    /\ cresult = "Ok"
    /\ responses[1].msg = Requests[1]
    /\ responses[2].msg = Requests[2]

\* The client returned Ok having read the responses in the order B, A.
C4_WitnessBA ==
    /\ HonestRun
    /\ cresult = "Ok"
    /\ responses[1].msg = Requests[2]
    /\ responses[2].msg = Requests[1]

-----------------------------------------------------------------------------
\* C5: the accept loop has been left only if the connection has terminated,
\* and then Echo::accept returned Ok; on a live connection the loop is
\* accepting, whatever the handler tasks did.
C5_LoopExit ==
    /\ spc = "done" => (conn = "closed" /\ sresult = "Ok")
    /\ spc # "done" => (spc = "accept" /\ sresult = "none")
    /\ conn = "open" => spc = "accept"

\* The loop ended with Ok after one task had failed on its payload and
\* another had echoed.
C5_Witness ==
    /\ spc = "done"
    /\ sresult = "Ok"
    /\ \E k \in Units : RecvFailed(k)
    /\ \E k \in Units : Served(k)

-----------------------------------------------------------------------------
\* C6: once the connection has terminated, a handler task suspended in
\* recv_message and a client suspended in recv_message leave the read; a read
\* that ends while its unit has no end-of-data (and is not over the limit)
\* ends with the connection-lost error, on a terminated connection.
C6_Shutdown ==
    /\ \A k \in Units : (conn = "closed" /\ hpc[k] = "read") ~> (hpc[k] = "done")
    /\ (conn = "closed" /\ cpc = "read") ~> (cpc # "read")
    /\ [][\A k \in Units :
            (hpc[k] = "read" /\ ~Readable(hrecv[k]) /\ hpc'[k] # "read") =>
                /\ conn = "closed"
                /\ hpc'[k] = "done"
                /\ herr'[k] = "ConnectionLost"]_vars

\* The connection has terminated while the task of a unit is suspended in a
\* read whose end-of-data has not arrived.
C6_Witness ==
    /\ conn = "closed"
    /\ \E k \in Units : hpc[k] = "read" /\ ~Readable(hrecv[k])

-----------------------------------------------------------------------------
\* send_message has returned in the task of unit k after opening a half.
HSendReturned(k) == hpc[k] = "done" /\ hsend[k] # NoHalf

\* send_message has returned in the client after opening the half csend.
CSendReturned == csend # NoHalf /\ cpc \notin {"send_write", "send_finish"}

\* C7, as stated: whenever send_message has returned, by whichever exit,
\* finish() has been called exactly once on the send half it opened.
C7_FinishEveryExit ==
    /\ \A k \in Units : HSendReturned(k) => finishCalls[hsend[k]] = 1
    /\ CSendReturned => finishCalls[csend] = 1

-----------------------------------------------------------------------------
\* The task of unit k has left recv_message and the connection did not cut
\* the read short.
ReadDecided(k) == hpc[k] \notin {"idle", "read"} /\ herr[k] # "ConnectionLost"

\* C8: a read of MAX_MESSAGE_SIZE + 1 bytes (or more) fails as oversized,
\* also before the sender has finished; a read of exactly MAX_MESSAGE_SIZE
\* bytes followed by end-of-data succeeds and its bytes are decoded.
C8_SizeBound ==
    \A k \in Units : ReadDecided(k) =>
        /\ half[hrecv[k]].data.len > MAX_MESSAGE_SIZE =>
              (herr[k] = "TooLong" /\ hmsg[k] = "none")
        /\ half[hrecv[k]].data.len = MAX_MESSAGE_SIZE =>
              /\ herr[k] # "TooLong"
              /\ half[hrecv[k]].st = "fin"
              /\ hmsg[k] = decode_from_slice(half[hrecv[k]].data).msg
        /\ herr[k] = "TooLong" => half[hrecv[k]].data.len > MAX_MESSAGE_SIZE

\* A unit of MAX_MESSAGE_SIZE + 1 bytes was refused before its sender
\* finished it.
C8_Witness ==
    \E k \in Units :
        /\ hrecv[k] # NoHalf
        /\ half[hrecv[k]].data.len = MAX_MESSAGE_SIZE + 1
        /\ half[hrecv[k]].st = "written"
        /\ conn = "open"
        /\ herr[k] = "TooLong"

\* A unit of exactly MAX_MESSAGE_SIZE bytes was read, decoded and echoed.
C8_WitnessExact ==
    \E k \in Units :
        /\ hrecv[k] # NoHalf
        /\ half[hrecv[k]].data.len = MAX_MESSAGE_SIZE
        /\ Served(k)

-----------------------------------------------------------------------------
\* C9: a handler task whose receive step failed on the payload (oversized or
\* undecodable) has ended with the diagnostic and without a reply unit: every
\* unit the responder opened belongs to a task that decoded its request; and
\* the failing step itself leaves the connection and every half as they were.
C9_RecvFailureDropped ==
    /\ [](\A k \in Units : herr[k] \in PayloadErrs =>
              /\ hpc[k] = "done"
              /\ hsend[k] = NoHalf
              /\ hmsg[k] = "none"
              /\ stderr[k] = "Error receiving message")
    /\ [](nextId["s"] - 1 = Cardinality({k \in Units : hsend[k] # NoHalf}))
    /\ [][\A k \in Units :
            (herr[k] = "none" /\ herr'[k] \in PayloadErrs) =>
                /\ conn' = conn
                /\ conn = "open" => conn' = "open"
                /\ half' = half
                /\ nextId' = nextId]_vars

\* A task failed on its payload; the connection is open and another unit was
\* echoed after that.
C9_Witness ==
    \E k \in Units :
        /\ RecvFailed(k)
        /\ conn = "open"
        /\ \E j \in Units : j > k /\ Served(j)

-----------------------------------------------------------------------------
\* C10: what recv_message decodes from the bytes send_message wrote is the
\* Message send_message was given: each handler task decodes the request
\* that was sent on its unit, the client decodes what the task echoed, and
\* the same Message is the same bytes on the request and on the reply unit.
C10_RoundTrip ==
    /\ \A k \in Units :
          (payload[k] = Honest(k) /\ hpc[k] \notin {"idle", "read"}
             /\ herr[k] # "ConnectionLost") => hmsg[k] = Requests[k]
    /\ \A i \in 1 .. Len(responses) :
          \E k \in Units : /\ hsend[k] = responses[i].from
                           /\ responses[i].msg = Reply(hmsg[k])
    /\ \A k \in Units :
          (payload[k] = Honest(k) /\ Replied(k)) =>
              half[hsend[k]].data = half[hrecv[k]].data

\* All three Messages made the trip there and back.
C10_Witness ==
    /\ HonestRun
    /\ cresult = "Ok"
    /\ \A k \in Units : hmsg[k] = Requests[k]
    /\ \A m \in Message : Count(m) = 1

-----------------------------------------------------------------------------
\* The payload is a complete encoding of a Message followed by more bytes.
TrailingBytes(b) ==
    \E m \in Message :
        /\ b.len > encode_to_vec(m).len
        /\ \A i \in 1 .. encode_to_vec(m).len :
              ByteAt(b, i) = ByteAt(encode_to_vec(m), i)

\* C11: a payload that is a valid encoding followed by extra bytes is not
\* accepted: recv_message and recv_one_way fail on it, so the handler task
\* that read such a payload ends with a receive error and no Message.
C11_NoTrailingGarbage ==
    /\ \A k \in Units :
          (TrailingBytes(payload[k]) /\ ReadDecided(k)) =>
              (hmsg[k] = "none" /\ herr[k] # "none")
    /\ \A k \in Units :
          (TrailingBytes(payload[k]) /\ ReadDecided(k)) =>
              ~recv_one_way(half[hrecv[k]].data).ok

-----------------------------------------------------------------------------
\* The bytes end before a variant index is complete: no byte at all, or the
\* first byte of a multi-byte integer without all the bytes it announces.
Truncated(b) ==
    \/ b.len = 0
    \/ ByteAt(b, 1) = 251 /\ b.len < 3
    \/ ByteAt(b, 1) = 252 /\ b.len < 5

\* The bytes hold a complete integer that is the index of no variant.
Malformed(b) ==
    /\ b.len >= 1
    /\ ByteAt(b, 1) \notin {251, 252}
    /\ ByteAt(b, 1) \notin {VariantIndex(m) : m \in Message}

\* Every strict prefix of the encoding of a Message.
StrictPrefixes ==
    { Buf(SubSeq(encode_to_vec(x[1]).head, 1, x[2]), x[2]) :
        x \in { y \in Message \X (0 .. 4) : y[2] < encode_to_vec(y[1]).len } }

C12_WitnessMalformed ==
    \E k \in Units : /\ payload[k] = Buf(<<3>>, 1)
                     /\ herr[k] = "UnexpectedVariant"
                     /\ hpc[k] = "done"

-----------------------------------------------------------------------------
\* The send-only unit i of the peer carries bytes the responder has not
\* taken: no task holds its receive half.
OneWayWaiting(i) ==
    /\ half[<<"c", i, "uni">>].st \in {"written", "fin"}
    /\ \A k \in Units : hrecv[k] # <<"c", i, "uni">>

\* C13, as stated: when a peer sends its Messages with send_one_way, the
\* accept loop of the responder accepts every one of them: while the
\* connection is open and a send-only unit waits, the loop is able to take
\* it, and the loop does not end on an open connection with a unit waiting.
C13_OneWayAccepted ==
    \A i \in Units :
        (OneWayWaiting(i) /\ conn = "open") =>
            (spc = "accept" /\ ENABLED SAccept)

-----------------------------------------------------------------------------
\* The handler task of unit k has been spawned and has not ended.
InFlight(k) == hpc[k] \in {"read", "send_open", "send_write", "send_finish"}

\* C14: the accept loop never waits for a handler.  Whenever the loop is at
\* accept_bi and a unit waits, the loop can take it and spawn its task,
\* whatever the tasks spawned before are doing, and a step of the loop
\* changes no other task.
C14_NoWaitForHandler ==
    /\ []((spc = "accept" /\ Acceptable("s")) =>
             ENABLED (SAccept /\ nextAcc'["s"] = nextAcc["s"] + 1))
    /\ [][\A k \in Units :
            (hpc[k] = "idle" /\ hpc'[k] = "read") =>
               \A j \in Units \ {k} :
                  /\ hpc'[j] = hpc[j]
                  /\ hmsg'[j] = hmsg[j]
                  /\ hsend'[j] = hsend[j]]_vars

\* Three tasks are in flight at once: the first is inside send_message, the
\* second has not read yet, the third was accepted while the client has
\* not yet finished its unit, so its read is suspended.
C14_Witness ==
    /\ hpc[1] \in {"send_open", "send_write", "send_finish"}
    /\ hpc[2] = "read"
    /\ hpc[3] = "read"
    /\ half[hrecv[3]].st = "written"
    /\ conn = "open"

-----------------------------------------------------------------------------
\* C16: Echo::accept does not join the tasks it spawned.  Once accept_bi
\* fails the loop can leave and the function return whatever its tasks are
\* doing, and its return changes no task: tasks in flight are abandoned.
C16_NoJoin ==
    /\ []((spc = "accept" /\ conn = "closed") => ENABLED (SAccept /\ spc' = "done"))
    /\ [][(spc = "accept" /\ spc' = "done") =>
            (sresult' = "Ok" /\ UNCHANGED handlerVars)]_vars

\* Echo::accept has returned while a task is suspended in its read and
\* another is inside send_message.
C16_Witness ==
    /\ spc = "done"
    /\ sresult = "Ok"
    /\ \E k \in Units : hpc[k] = "read"
    /\ \E k \in Units : hpc[k] \in {"send_open", "send_write", "send_finish"}

-----------------------------------------------------------------------------
\* C15: a receiver acts only on a complete message.  The read of a handler
\* task is decided only once the peer has finished the unit, or more than
\* MAX_MESSAGE_SIZE bytes have arrived, or the connection has terminated; a
\* Message is decoded and a reply unit opened only after the peer finished;
\* and while the unit is unfinished, within the bound, on an open
\* connection, the task stays in its read and has produced nothing.
C15_CompleteOnly ==
    \A k \in Units :
        /\ hpc[k] \notin {"idle", "read"} =>
              \/ half[hrecv[k]].st = "fin"
              \/ half[hrecv[k]].data.len > MAX_MESSAGE_SIZE
              \/ conn = "closed"
        /\ (hmsg[k] # "none" \/ hsend[k] # NoHalf) => half[hrecv[k]].st = "fin"
        /\ (/\ hpc[k] = "read"
            /\ half[hrecv[k]].st # "fin"
            /\ half[hrecv[k]].data.len <= MAX_MESSAGE_SIZE
            /\ conn = "open") =>
              /\ ~ENABLED HRead(k)
              /\ hmsg[k] = "none"
              /\ hsend[k] = NoHalf

\* The task of a unit is suspended in its read: the bytes of the request
\* are there, the client has not finished the unit yet.
C15_Witness ==
    \E k \in Units :
        /\ hpc[k] = "read"
        /\ half[hrecv[k]] = [st |-> "written", data |-> Honest(k)]
        /\ cpc = "send_finish"
        /\ conn = "open"

-----------------------------------------------------------------------------
\* The halves of the units the responder opened that carry bytes.
ReplyHalves == { h \in HalfIds : h[1] = "s" /\ h[3] = "up"
                                  /\ half[h].st \in {"written", "fin"} }

\* The tasks that received and decoded a Message.
DecodedTasks == { k \in Units : hmsg[k] # "none" }

\* C17: what the responder has written is covered, one for one, by what it
\* received and decoded.  Every reply half belongs to exactly one task,
\* that task decoded a Message from its request unit and the half carries
\* the encoding of that Message; the responder opens no more units than it
\* decoded Messages; the client writes nothing on a unit it accepted and
\* opens no unit beyond its requests, so both sides together never open
\* more than twice as many units as there are requests.
C17_NoAmplification ==
    /\ \A h \in ReplyHalves :
          /\ Cardinality({k \in Units : hsend[k] = h}) = 1
          /\ \A k \in Units : hsend[k] = h =>
                /\ k \in DecodedTasks
                /\ recv_message(half[hrecv[k]].data) = DecOk(hmsg[k], recv_message(half[hrecv[k]].data).used)
                /\ half[h].data = encode_to_vec(hmsg[k])
    /\ Cardinality(ReplyHalves) <= Cardinality(DecodedTasks)
    /\ nextId["s"] - 1 <= Cardinality(DecodedTasks)
    /\ nextId["c"] - 1 <= Len(Requests)
    /\ \A i \in Units : /\ half[<<"s", i, "down">>].data = EmptyBuf
                        /\ half[<<"s", i, "down">>].st \in {"none", "fin"}
    /\ (nextId["c"] - 1) + (nextId["s"] - 1) <= 2 * Len(Requests)

\* The three requests were answered and read: six units were opened, three
\* by each side.
C17_Witness ==
    /\ Cardinality(ReplyHalves) = Len(Requests)
    /\ Cardinality(DecodedTasks) = Len(Requests)
    /\ (nextId["c"] - 1) + (nextId["s"] - 1) = 2 * Len(Requests)
    /\ Len(responses) = NResponses

-----------------------------------------------------------------------------
\* C18: the client calls conn.close only after its three sends have
\* completed and it has read three complete responses.  So when it is about
\* to close, and once it has closed, every request unit is finished, every
\* handler task has written and finished its reply and ended, and each
\* reply was read whole from a unit of its own: no reply is lost or cut.
C18_CloseAfterAll ==
    (cpc = "close" \/ closeCause = "close") =>
        /\ \A i \in Units : /\ half[<<"c", i, "up">>].st = "fin"
                            /\ finishCalls[<<"c", i, "up">>] = 1
        /\ Len(responses) = NResponses
        /\ \A k \in Units :
              /\ Served(k)
              /\ \E i \in 1 .. Len(responses) :
                    /\ responses[i].from = hsend[k]
                    /\ responses[i].msg = hmsg[k]

\* The client has closed after a full run; the accept loop has not yet
\* noticed.
C18_Witness ==
    /\ closeCause = "close"
    /\ conn = "closed"
    /\ spc = "accept"
    /\ \A k \in Units : Served(k)

-----------------------------------------------------------------------------
\* run_singleplayer, main.rs:87-101, has completed: run_client_internal
\* returned Ok (main.rs:96) and the router has shut down (main.rs:99), the
\* accept future of the connection having ended.
run_singleplayer_done == cresult = "Ok" /\ spc = "done" /\ sresult = "Ok"

\* C19: if every payload decodes and the connection is not lost, then under
\* fair scheduling the run terminates: the client reads its three responses
\* and closes, after that accept_bi fails in the responder, the loop leaves
\* and run_singleplayer completes.  The loop never leaves on an open
\* connection.
C19_Terminates ==
    /\ (\A k \in Units : Decodable(k)) =>
          <>(\/ closeCause = "lost"
             \/ /\ Len(responses) = NResponses
                /\ closeCause = "close"
                /\ run_singleplayer_done)
    /\ [](spc = "done" => conn = "closed")
    /\ [](cresult = "Ok" => (conn = "closed" /\ Len(responses) = NResponses))

\* The whole run has ended without a failure.
C19_Witness ==
    /\ \A k \in Units : Decodable(k)
    /\ closeCause = "close"
    /\ Len(responses) = NResponses
    /\ run_singleplayer_done
    /\ \A k \in Units : hpc[k] = "done"

-----------------------------------------------------------------------------
\* The client waits in accept_bi for a response that nobody will send, and
\* the accept loop waits in accept_bi for a unit that nobody will open.
BothSuspended ==
    /\ conn = "open"
    /\ cpc = "accept"
    /\ ~Acceptable("c")
    /\ Len(responses) = NResponses - Cardinality({k \in Units : RecvFailed(k)})
    /\ Len(responses) < NResponses
    /\ spc = "accept"
    /\ ~Acceptable("s")
    /\ \A k \in Units : hpc[k] = "done"

\* C20: once the task of one of the three units has failed on its payload,
\* the client never reaches conn.close and never returns Ok; while the
\* connection stays open neither the client nor the accept loop ends, and
\* under fair scheduling the run settles with the client suspended in
\* accept_bi after the responses of the other units and the accept loop
\* suspended in accept_bi, where neither has a step left.
C20_DroppedExchangeHangs ==
    /\ []((\E k \in Units : RecvFailed(k)) =>
             /\ cpc \notin {"close", "shutdown"}
             /\ closeCause # "close"
             /\ cresult # "Ok"
             /\ Len(responses) < NResponses)
    /\ []((conn = "open" /\ \E k \in Units : RecvFailed(k)) =>
             (cpc # "done" /\ spc = "accept"))
    /\ [](BothSuspended => (~ENABLED Client /\ ~ENABLED SAccept))
    /\ (\E k \in Units : RecvFailed(k)) ~> (conn = "closed" \/ BothSuspended)

\* One unit was dropped by its task; the two others were echoed and read,
\* and both sides wait on the open connection.
C20_Witness ==
    /\ \E k \in Units : RecvFailed(k)
    /\ BothSuspended

====
